---- MODULE Spec2Model ----
(***************************************************************************)
(* Model of the dashboard pipeline of MylesPlatinum/dashboard-demo:        *)
(* load_data (app_complete.py) reads the revenue matrix row by row, reads  *)
(* the costs table row by row, left-merges the two on (Period, Branch),    *)
(* derives Gross Profit and Margin %, and sorts; the dashboard filters the *)
(* table and aggregates by branch; the report (premium_pdf_generator.py)   *)
(* aggregates by period and by branch and lists the identified risks.     *)
(* SpecLocate is the file search of get_latest_files; SpecCache is the     *)
(* st.cache_data(ttl=60) cache of load_data and get_latest_files as the    *)
(* sessions of the app share it.                                           *)
(*                                                                         *)
(* Numbers are integers.  Margin % is held in tenths of a percent (the     *)
(* code rounds it to one decimal place).  A pandas string is a sequence of *)
(* characters; a Period is the digit string str(int(cell)).                *)
(***************************************************************************)
EXTENDS Integers, Sequences, FiniteSets, TLC

VARIABLES
    pc,              \* position of the script run
    idx,             \* row index of the iterrows() loop in progress
    data_list,       \* load_data: records extracted from the revenue matrix
    cost_data,       \* load_data: records extracted from the costs table
    df,              \* the FactTable returned by load_data
    err,             \* exception raised by load_data ("none" when none)
    err_info,        \* where it was raised, and the literal its message quotes
    cost_columns,    \* load_data: the branch columns of costs_raw
    filtered_df,     \* the dashboard's filtered copy of df
    branch_totals,   \* the dashboard's group-by-branch aggregate
    kpi,             \* the dashboard's totals over filtered_df
    period_summary,  \* the report's group-by-period aggregate
    pdf_branch_totals, \* the report's group-by-branch aggregate
    risks,           \* the report's list of identified risks
    opportunities,   \* the report's list of strategic opportunities
    row,             \* the row of the revenue matrix the loop body last ran on
    branches,        \* config['data']['branches'], in column order
    \* get_latest_files
    fs,              \* the search locations: existence and matching files
    loc,             \* index of the location the loop is at
    revenue_file,    \* get_latest_files: the revenue file found so far
    costs_file,      \* get_latest_files: the costs file found so far
    loc_pc,          \* position inside get_latest_files
    \* st.cache_data and the sessions that share it
    now,             \* the clock of the cache, in seconds
    disk,            \* mtime of each source file (0: no such file)
    load_cache,      \* the cache entry of load_data
    files_cache,     \* the cache entry of get_latest_files
    spc,             \* per session: position of its call of load_data
    button,          \* per session: the Refresh Data button was clicked
    src,             \* per session: the source its computation read
    how,             \* per session: how its last call ended
    calls,           \* number of calls of load_data that ended
    caller,          \* the session of the call that ended last
    result,          \* what that call returned
    session_state,   \* per session: whether st.session_state has 'auth', and its value
    password_input,  \* per session: the value of the password text input
    apc,             \* per session: where its script run stands
    run_auth         \* per session: session_state.auth when the current run started

mainVars == <<pc, idx, data_list, cost_data, df, err, err_info, cost_columns,
              filtered_df, branch_totals, kpi, period_summary, pdf_branch_totals, risks,
              opportunities, row, branches>>

locVars == <<fs, loc, revenue_file, costs_file, loc_pc>>

authVars == <<session_state, password_input, apc, run_auth>>

cacheVars == <<now, disk, load_cache, files_cache, spc, button, src, how, calls, caller, result>>

vars == <<mainVars, locVars, cacheVars, authVars>>

-----------------------------------------------------------------------------
(* Bounds of the model *)

MaxRevRows  == 2   \* rows of the revenue matrix below the four skipped rows
MaxCostRows == 2   \* rows of the costs table

(* Program constants *)

HeaderRows == 4    \* rows with idx < 4 are skipped

\* config['data']['branches'] of the three-branch configuration, in column order
ConfiguredBranches == <<"South", "North", "East">>

-----------------------------------------------------------------------------
(* Cells of a sheet as pandas hands them over: a number, a text, or NaN.   *)

Num(n)  == [k |-> "num",  v |-> n, s |-> <<>>]
Text(t) == [k |-> "text", v |-> 0, s |-> t]
NaNCell == [k |-> "nan",  v |-> 0, s |-> <<>>]

\* The texts pd.read_excel turns into NaN (keep_default_na): '', 'N/A', 'n/a'
\* among them.
NaStrings == { <<>>, <<"N", "/", "A">>, <<"n", "/", "a">> }

\* pd.read_excel: the cell of the frame for a cell of the sheet.
read_excel(c) == IF c.k = "text" /\ c.s \in NaStrings THEN NaNCell ELSE c

\* pd.isna(x)
IsNaCell(c) == c.k = "nan"

\* pd.to_numeric(x, errors='coerce'): a number, or NaN for text and blanks.
\* The texts of this model hold no numeral.
to_numeric(c) ==
    IF c.k = "num" THEN [nan |-> FALSE, v |-> c.v] ELSE [nan |-> TRUE, v |-> 0]

\* int(x) raises ValueError on a text that is no numeral.
IntRaises(c) == c.k = "text"

\* str(n) for n >= 0: the decimal digits of n.
RECURSIVE IntToStr(_)
IntToStr(n) == IF n < 10 THEN <<n>> ELSE IntToStr(n \div 10) \o <<n % 10>>

\* int(s) for a digit string s  (df['Period'].astype(int)).
RECURSIVE StrToInt(_)
StrToInt(s) ==
    IF Len(s) = 0 THEN 0
    ELSE 10 * StrToInt(SubSeq(s, 1, Len(s) - 1)) + s[Len(s)]

\* Python/pandas order of two digit strings: lexicographic by character.
RECURSIVE StrLess(_, _)
StrLess(a, b) ==
    IF Len(b) = 0 THEN FALSE
    ELSE IF Len(a) = 0 THEN TRUE
    ELSE IF a[1] # b[1] THEN a[1] < b[1]
    ELSE StrLess(Tail(a), Tail(b))

\* str.strip(): drop leading and trailing blanks.
RECURSIVE StripLeft(_)
StripLeft(s) == IF Len(s) > 0 /\ s[1] = " " THEN StripLeft(Tail(s)) ELSE s

RECURSIVE StripRight(_)
StripRight(s) ==
    IF Len(s) > 0 /\ s[Len(s)] = " " THEN StripRight(SubSeq(s, 1, Len(s) - 1)) ELSE s

Strip(s) == StripRight(StripLeft(s))

\* str.upper(), character by character.
UpperChar(ch) ==
    CASE ch = "t" -> "T"
      [] ch = "o" -> "O"
      [] ch = "a" -> "A"
      [] ch = "l" -> "L"
      [] ch = "s" -> "S"
      [] ch = "u" -> "U"
      [] ch = "b" -> "B"
      [] OTHER    -> ch

Upper(s) == [i \in 1..Len(s) |-> UpperChar(s[i])]

TOTAL == <<"T", "O", "T", "A", "L">>

\* Python order of the branch names ("East" < "North" < "South").
BranchRank(b) == IF b = "East" THEN 0 ELSE IF b = "North" THEN 1 ELSE 2

BranchLess(a, b) == BranchRank(a) < BranchRank(b)

-----------------------------------------------------------------------------
(* Inputs: the rows a workbook may hold *)

Descriptions ==
    { TOTAL,
      <<"T", "o", "t", "a", "l">>,
      <<" ", "t", "o", "t", "a", "l", " ">>,
      <<"S", "u", "b", "t", "o", "t", "a", "l">> }

PeriodCells ==
    { Num(2), Num(10), NaNCell, Text(<<>>), Text(<<"N", "/", "A">>),
      Text(<<"t", "b", "c">>), Text(<<"P", " ", "7", " ", "(", "A", ")">>) }

RevenueCells ==
    { <<Num(100), Text(<<"n", "/", "a">>), NaNCell>>,
      <<Num(300), Num(100), Num(300)>>,
      <<Num(0),   Num(300), Num(0)>>,
      <<Num(-50), NaNCell,  NaNCell>> }

CostCells ==
    { <<Num(40),  Num(350), Num(240)>>,
      <<Text(<<"n", "/", "a">>), Num(80), NaNCell>>,
      <<Num(350), NaNCell, Num(264)>> }

\* A row of the revenue matrix as read_excel returns it: row[0], row[1], and
\* cells[i + 1] = row[3 + i] for the branch at index i of the configured list.
RevenueRows ==
    { [description |-> d, period_val |-> read_excel(p),
       cells |-> [i \in 1..Len(c) |-> read_excel(c[i])]] :
        d \in Descriptions, p \in PeriodCells, c \in RevenueCells }

\* A row of the costs table as read_excel returns it: row['Period'], row[branch].
CostRows ==
    { [Period |-> read_excel(p), cells |-> [i \in 1..Len(c) |-> read_excel(c[i])]] :
        p \in PeriodCells, c \in CostCells }

\* The branch columns a costs table may have (costs_raw.columns).
CostColumnSets == { {"South", "North", "East"}, {"South"} }

-----------------------------------------------------------------------------
(* Sequence helpers *)

RECURSIVE Concat(_)
Concat(ss) == IF Len(ss) = 0 THEN <<>> ELSE Head(ss) \o Concat(Tail(ss))

Range(s) == { s[i] : i \in 1..Len(s) }

RECURSIVE SumSeq(_)
SumSeq(s) == IF Len(s) = 0 THEN 0 ELSE Head(s) + SumSeq(Tail(s))

\* The indices 1..i in the order less (less[i, j]: element i sorts before
\* element j): each index goes behind the indices before it that it does not
\* sort before.
RECURSIVE Order(_, _)
Order(less, i) ==
    IF i = 0 THEN <<>>
    ELSE LET prev == Order(less, i - 1)
             k == Cardinality({ q \in 1..Len(prev) : ~less[i, prev[q]] })
         IN  SubSeq(prev, 1, k) \o <<i>> \o SubSeq(prev, k + 1, Len(prev))

\* The elements of s in the order less (less[i, j]: s[i] sorts before s[j]),
\* equal elements keeping their order (pandas sorts several keys with a stable
\* lexsort).
StableSort(s, less) ==
    LET o == Order(less, Len(s))
    IN  [p \in 1..Len(s) |-> s[o[p]]]

\* The values of the set S in the order less (less[x, y]: x sorts before y):
\* groupby and sorted(unique()) list each key once, in order.
SortedKeys(S, less) ==
    LET pos(x) == Cardinality({ y \in S : less[y, x] }) + 1
    IN  [p \in 1..Cardinality(S) |-> CHOOSE x \in S : pos(x) = p]

\* num / den rounded to the nearest integer, ties to the even one
\* (numpy.round), for den > 0.
Round(num, den) ==
    LET q == num \div den
        r == num - q * den
    IN  IF 2 * r < den THEN q
        ELSE IF 2 * r > den THEN q + 1
        ELSE IF q % 2 = 0 THEN q ELSE q + 1

-----------------------------------------------------------------------------
(* load_data: the revenue loop *)

\* RevenueAccepted with the test revenue >= 0
RevenueAcceptedNonNegative(revenue) == ~revenue.nan /\ revenue.v >= 0

\* line 140: not pd.isna(revenue) and revenue > 0
RevenueAccepted(revenue) == ~revenue.nan /\ revenue.v > 0

\* lines 136-146: the records of one TOTAL row, in the order of the branch list
RowRecords(r, period) ==
    Concat([i \in 1..Len(branches) |->
        LET revenue == to_numeric(r.cells[i])
        IN  IF RevenueAccepted(revenue)
            THEN <<[Period |-> period, Branch |-> branches[i], Revenue |-> revenue.v]>>
            ELSE <<>>])

\* line 129: pd.isna(period_val) or period_val == ''
PeriodMissing(period_val) == IsNaCell(period_val) \/ period_val = Text(<<>>)

\* line 132: description.upper() == 'TOTAL', description = str(row[0]).strip()
IsTotalRow(r) == Upper(Strip(r.description)) = TOTAL

\* load_data raised: the call site reports the error and stops the run.
NoErrInfo == [at |-> "", arg |-> <<>>]

\* Raise with the error reported and the run going on below the call site
RaiseAndGoOn(e, arg) ==
    /\ pc' = "loaded"
    /\ err' = e
    /\ err_info' = [at |-> pc, arg |-> arg]
    /\ cost_columns' = {}
    /\ idx' = 0
    /\ data_list' = <<>>
    /\ cost_data' = <<>>
    /\ UNCHANGED <<df, filtered_df, branch_totals, kpi, period_summary, pdf_branch_totals, risks, opportunities, branches>>

Raise(e, arg) ==
    /\ pc' = "stopped"
    /\ err' = e
    /\ err_info' = [at |-> pc, arg |-> arg]
    /\ cost_columns' = {}
    /\ idx' = 0
    /\ data_list' = <<>>
    /\ cost_data' = <<>>
    /\ UNCHANGED <<df, filtered_df, branch_totals, kpi, period_summary, pdf_branch_totals, risks, opportunities, branches>>

\* lines 100-106 and 115: get_latest_files found no revenue file or no costs
\* file, and st.stop() ends the run inside load_data before any row is read.
FilesNotFound ==
    /\ pc = "revenue_loop"
    /\ idx = 0
    /\ pc' = "stopped"
    /\ err' = "StopException"
    /\ err_info' = [at |-> "get_latest_files", arg |-> <<>>]
    /\ UNCHANGED <<idx, data_list, cost_data, df, cost_columns, filtered_df, branch_totals,
                   kpi, period_summary, pdf_branch_totals, risks, opportunities, row, branches>>
    /\ UNCHANGED <<locVars, cacheVars, authVars>>

\* before the loop and after it
NoRow == [description |-> <<>>, period_val |-> NaNCell, cells |-> <<>>]

\* lines 121-146: one pass of the loop body, on a row of the set rows
ReadRevenueRowOf(rows) ==
    /\ pc = "revenue_loop"
    /\ \E r \in rows :
         /\ row' = r
         /\ IF idx >= HeaderRows /\ ~PeriodMissing(r.period_val) /\ IsTotalRow(r)
            THEN IF IntRaises(r.period_val)
                 THEN Raise("ValueError", r.period_val.s)
                 ELSE /\ data_list' = data_list \o RowRecords(r, IntToStr(r.period_val.v))
                      /\ idx' = idx + 1
                      /\ UNCHANGED <<pc, cost_data, df, err, err_info, cost_columns, filtered_df, branch_totals,
                                     kpi, period_summary, pdf_branch_totals, risks, opportunities, branches>>
            ELSE /\ idx' = idx + 1
                 /\ UNCHANGED <<pc, data_list, cost_data, df, err, err_info, cost_columns, filtered_df,
                                branch_totals, kpi, period_summary, pdf_branch_totals, risks, opportunities, branches>>
    /\ UNCHANGED <<locVars, cacheVars, authVars>>

ReadRevenueRow ==
    /\ idx < HeaderRows + MaxRevRows
    /\ ReadRevenueRowOf(RevenueRows)

\* The matrix has no further row: the costs table is read next.
EndRevenueLoopWith(columns) ==
    /\ pc = "revenue_loop"
    /\ pc' = "cost_loop"
    /\ idx' = 0
    /\ row' = NoRow
    /\ cost_columns' \in columns
    /\ UNCHANGED <<data_list, cost_data, df, err, err_info, filtered_df, branch_totals,
                   kpi, period_summary, pdf_branch_totals, risks, opportunities, branches>>
    /\ UNCHANGED <<locVars, cacheVars, authVars>>

EndRevenueLoop == EndRevenueLoopWith(CostColumnSets)

-----------------------------------------------------------------------------
(* load_data: the costs loop *)

\* lines 161-169: the records of one costs row; a branch without a column is
\* passed over, and a NaN cost appends nothing
CostRecords(r, period) ==
    Concat([i \in 1..Len(branches) |->
        LET cost == to_numeric(r.cells[i])
        IN  IF branches[i] \in cost_columns /\ ~cost.nan
            THEN <<[Period |-> period, Branch |-> branches[i], Cost |-> cost.v]>>
            ELSE <<>>])

\* lines 153-169: one pass of the costs loop, on a row of the set rows
ReadCostRowOf(rows) ==
    /\ pc = "cost_loop"
    /\ \E r \in rows :
         IF IsNaCell(r.Period)
         THEN /\ idx' = idx + 1
              /\ UNCHANGED <<pc, data_list, cost_data, df, err, err_info, cost_columns, filtered_df,
                             branch_totals, kpi, period_summary, pdf_branch_totals, risks, opportunities, branches>>
         ELSE IF IntRaises(r.Period)
         THEN Raise("ValueError", r.Period.s)
         ELSE /\ cost_data' = cost_data \o CostRecords(r, IntToStr(r.Period.v))
              /\ idx' = idx + 1
              /\ UNCHANGED <<pc, data_list, df, err, err_info, cost_columns, filtered_df, branch_totals,
                             kpi, period_summary, pdf_branch_totals, risks, opportunities, branches>>
    /\ UNCHANGED row
    /\ UNCHANGED <<locVars, cacheVars, authVars>>

ReadCostRow ==
    /\ idx < MaxCostRows
    /\ ReadCostRowOf(CostRows)

-----------------------------------------------------------------------------
(* load_data: merge, derived columns, sort *)

SameKey(a, b) == a.Period = b.Period /\ a.Branch = b.Branch

\* MergeLeft with on=['Period'] alone
MergeOnPeriod(left, right) ==
    Concat([i \in 1..Len(left) |->
        LET l == left[i]
            m == SelectSeq(right, LAMBDA c : c.Period = l.Period)
        IN  IF Len(m) = 0
            THEN <<[Period |-> l.Period, Branch |-> l.Branch, Revenue |-> l.Revenue,
                    Cost |-> [nan |-> TRUE, v |-> 0]]>>
            ELSE [j \in 1..Len(m) |->
                    [Period |-> l.Period, Branch |-> l.Branch, Revenue |-> l.Revenue,
                     Cost |-> [nan |-> FALSE, v |-> m[j].Cost]]]])

\* df.merge(costs_df, on=['Period', 'Branch'], how='left'): each left row, in
\* order, once per matching right row, or once with a NaN Cost when none matches.
MergeLeft(left, right) ==
    Concat([i \in 1..Len(left) |->
        LET l == left[i]
            m == SelectSeq(right, LAMBDA c : SameKey(c, l))
        IN  IF Len(m) = 0
            THEN <<[Period |-> l.Period, Branch |-> l.Branch, Revenue |-> l.Revenue,
                    Cost |-> [nan |-> TRUE, v |-> 0]]>>
            ELSE [j \in 1..Len(m) |->
                    [Period |-> l.Period, Branch |-> l.Branch, Revenue |-> l.Revenue,
                     Cost |-> [nan |-> FALSE, v |-> m[j].Cost]]]])

\* A frame built from an empty list has no column: merging on 'Period' raises.
MergeRaises(left, right) == Len(left) = 0 \/ Len(right) = 0

\* fillna(0)
FillNa(x) == IF x.nan THEN 0 ELSE x.v

\* MarginPct rounding down to the tenth below instead of to the nearest
MarginPctTruncated(gp, revenue) ==
    IF revenue = 0 THEN 0 ELSE (1000 * gp) \div revenue

\* lines 177-178: ((gp / revenue) * 100).round(1), NaN filled with 0; in tenths
\* of a percent.  Revenue 0 gives NaN when gp is 0 too (filled with 0); a
\* revenue of 0 never reaches this line (RevenueAccepted).
MarginPct(gp, revenue) == IF revenue = 0 THEN 0 ELSE Round(1000 * gp, revenue)

\* lines 174-180 for one merged row
Derive(r) ==
    LET cost == FillNa(r.Cost)
    IN  [Period |-> r.Period, Branch |-> r.Branch, Revenue |-> r.Revenue,
         Cost |-> cost,
         GrossProfit |-> r.Revenue - cost,
         Margin |-> MarginPct(r.Revenue - cost, r.Revenue),
         Period_Int |-> StrToInt(r.Period)]

\* FactLess on the Period text: sort_values(['Period', 'Branch'])
FactLessByText(a, b) ==
    \/ StrLess(a.Period, b.Period)
    \/ a.Period = b.Period /\ BranchLess(a.Branch, b.Branch)

\* line 181: sort_values(['Period_Int', 'Branch'])
FactLess(a, b) ==
    \/ a.Period_Int < b.Period_Int
    \/ a.Period_Int = b.Period_Int /\ BranchLess(a.Branch, b.Branch)

\* lines 171-183
LoadResult(left, right) ==
    LET merged == MergeLeft(left, right)
        rows == [i \in 1..Len(merged) |-> Derive(merged[i])]
    IN  StableSort(rows, [i, j \in 1..Len(rows) |-> FactLess(rows[i], rows[j])])

\* The costs table has no further row: merge, derive, sort, return.
FinishLoad ==
    /\ pc = "cost_loop"
    /\ IF MergeRaises(data_list, cost_data)
       THEN Raise("KeyError", <<"P", "e", "r", "i", "o", "d">>)
       ELSE /\ df' = LoadResult(data_list, cost_data)
            /\ pc' = "loaded"
            /\ idx' = 0
            /\ UNCHANGED <<data_list, cost_data, err, err_info, cost_columns, filtered_df, branch_totals,
                           kpi, period_summary, pdf_branch_totals, risks, opportunities, branches>>
    /\ UNCHANGED row
    /\ UNCHANGED <<locVars, cacheVars, authVars>>

\* line 328: the script binds what load_data returned and goes on; the call
\* is over and its locals are gone
BindResult ==
    /\ pc = "loaded"
    /\ pc' = "script"
    /\ data_list' = <<>>
    /\ cost_data' = <<>>
    /\ cost_columns' = {}
    /\ UNCHANGED <<idx, df, err, err_info, filtered_df, branch_totals, kpi, period_summary, pdf_branch_totals, risks, opportunities, row, branches>>
    /\ UNCHANGED <<locVars, cacheVars, authVars>>

-----------------------------------------------------------------------------
(* The dashboard: sidebar filters, filter, aggregate by branch, KPIs *)

Column(d, f) == [i \in 1..Len(d) |-> d[i][f]]

\* line 360: sorted(df['Period'].unique(), key=lambda x: int(x))
IntLess(a, b) == StrToInt(a) < StrToInt(b)

all_periods(d) ==
    LET S == Range(Column(d, "Period"))
    IN  SortedKeys(S, [x, y \in S |-> IntLess(x, y)])

\* lines 366-377: the period lists the sidebar can select
PeriodSelections(d) ==
    LET all == all_periods(d)
    IN  { Range(all) }                                        \* "All Periods"
        \cup { { all[Len(all)] } }                            \* "Latest Period"
        \cup { IF c = {} THEN Range(all) ELSE c : c \in SUBSET Range(all) }

\* lines 382-391: the branch lists the sidebar can select
BranchSelections ==
    { Range(branches) }
    \cup { IF c = {} THEN Range(branches) ELSE c : c \in SUBSET Range(branches) }

\* lines 361-364, 371-375, 380, 385-389: the values the user can give the
\* widgets; a multiselect that is not rendered has no value
SidebarChoices(d) ==
    LET P == { <<"All Periods", {}>>, <<"Latest Period", {}>> }
                 \cup ({"Custom Selection"} \X SUBSET Range(Column(d, "Period")))
        B == { <<TRUE, {}>> } \cup ({FALSE} \X SUBSET Range(branches))
    IN  { [period_option |-> p[1], periods |-> p[2],
           select_all |-> b[1], branches |-> b[2]] : p \in P, b \in B }

\* SelPeriods without lines 376-377
SelPeriodsNoFallback(d, w) ==
    LET all == all_periods(d)
    IN  IF w.period_option = "All Periods" THEN Range(all)
        ELSE IF w.period_option = "Latest Period" THEN { all[Len(all)] }
        ELSE w.periods

\* lines 366-377: sel_periods
SelPeriods(d, w) ==
    LET all == all_periods(d)
    IN  IF w.period_option = "All Periods" THEN Range(all)
        ELSE IF w.period_option = "Latest Period" THEN { all[Len(all)] }
        ELSE IF w.periods = {} THEN Range(all) ELSE w.periods

\* lines 382-391: sel_branches
SelBranches(w) ==
    IF w.select_all THEN Range(branches)
    ELSE IF w.branches = {} THEN Range(branches) ELSE w.branches

\* lines 360-391: the pairs (sel_periods, sel_branches) the sidebar can hand
\* to the filter, one for each value of its widgets
Selections(d) == { <<SelPeriods(d, w), SelBranches(w)>> : w \in SidebarChoices(d) }

\* line 397
Filter(d, ps, bs) ==
    SelectSeq(d, LAMBDA r : r.Period \in ps /\ r.Branch \in bs)

\* (gp / revenue * 100).round(1) in tenths of a percent, with no fillna: the
\* revenue of a group of FactTable rows is positive.
RatioPct(gp, revenue) == Round(1000 * gp, revenue)

\* GroupSum with the aggregate 'last'
GroupLast(d, key, k, f) ==
    LET g == Column(SelectSeq(d, LAMBDA r : r[key] = k), f)
    IN  IF Len(g) = 0 THEN 0 ELSE g[Len(g)]

\* groupby(key).agg(f: 'sum'): the sum of column f over the rows of one group
GroupSum(d, key, k, f) == SumSeq(Column(SelectSeq(d, LAMBDA r : r[key] = k), f))

\* lines 404-409: groupby('Branch') sums, groups in ascending Branch order
BranchTotals(d) ==
    LET S == Range(Column(d, "Branch"))
        keys == SortedKeys(S, [x, y \in S |-> BranchLess(x, y)])
    IN  [i \in 1..Len(keys) |->
           LET revenue == GroupSum(d, "Branch", keys[i], "Revenue")
               gp      == GroupSum(d, "Branch", keys[i], "GrossProfit")
           IN  [Branch |-> keys[i],
                Revenue |-> revenue,
                Cost |-> GroupSum(d, "Branch", keys[i], "Cost"),
                GrossProfit |-> gp,
                Margin |-> RatioPct(gp, revenue)]]

\* lines 416-419; avg_margin is margin_sum / count
Kpi(d) ==
    [total_revenue |-> SumSeq(Column(d, "Revenue")),
     total_cost    |-> SumSeq(Column(d, "Cost")),
     total_profit  |-> SumSeq(Column(d, "GrossProfit")),
     margin_sum    |-> SumSeq(Column(d, "Margin")),
     count         |-> Len(d)]

NoKpi == [total_revenue |-> 0, total_cost |-> 0, total_profit |-> 0,
          margin_sum |-> 0, count |-> 0]

\* lines 360-419: one pass of the script below the load, for one choice of the
\* sidebar widgets
Dashboard ==
    /\ pc = "script"
    /\ \E sel \in Selections(df) :
         LET f == Filter(df, sel[1], sel[2])
         IN  /\ filtered_df' = f
             /\ IF Len(f) = 0
                THEN /\ pc' = "stopped"
                     /\ UNCHANGED <<branch_totals, kpi>>
                ELSE /\ pc' = "dashboard"
                     /\ branch_totals' = BranchTotals(f)
                     /\ kpi' = Kpi(f)
    /\ UNCHANGED <<data_list, cost_data, cost_columns, idx, df, err, err_info, period_summary, pdf_branch_totals, risks, opportunities, row, branches>>
    /\ UNCHANGED <<locVars, cacheVars, authVars>>

-----------------------------------------------------------------------------
(* The report: period summary and branch ranking *)

NoGrowth == [nan |-> TRUE, inf |-> FALSE, num |-> 0, den |-> 1]

\* Series.pct_change() * 100 for one row: 100 * (cur - prev) / prev as the
\* fraction num / den; a division of a non-zero number by zero is infinite
\* and 0 / 0 is NaN in floating point.
PctChange(prev, cur) ==
    IF prev = 0
    THEN IF cur = 0 THEN NoGrowth
         ELSE [nan |-> FALSE, inf |-> TRUE, num |-> 0, den |-> 1]
    ELSE [nan |-> FALSE, inf |-> FALSE, num |-> 100 * (cur - prev), den |-> prev]

\* The order of the group keys of groupby('Period'): Period is a string column.
PeriodKeyLess(a, b) == StrLess(a, b)

\* premium_pdf_generator.py lines 458-465
PeriodSummary(d) ==
    LET S == Range(Column(d, "Period"))
        keys == SortedKeys(S, [x, y \in S |-> PeriodKeyLess(x, y)])
        revenue(i) == GroupSum(d, "Period", keys[i], "Revenue")
    IN  [i \in 1..Len(keys) |->
           LET gp == GroupSum(d, "Period", keys[i], "GrossProfit")
           IN  [Period |-> keys[i],
                Revenue |-> revenue(i),
                Cost |-> GroupSum(d, "Period", keys[i], "Cost"),
                GrossProfit |-> gp,
                Margin |-> RatioPct(gp, revenue(i)),
                Growth |-> IF i = 1 THEN NoGrowth
                           ELSE PctChange(revenue(i - 1), revenue(i))]]

\* line 573: sort_values('Revenue', ascending=False)
RevenueDesc(a, b) == a.Revenue > b.Revenue

\* premium_pdf_generator.py lines 565-573
PdfBranchTotals(d) ==
    LET t == BranchTotals(d)
        total == SumSeq(Column(t, "Revenue"))
        rows == [i \in 1..Len(t) |->
                   [Branch |-> t[i].Branch,
                    Revenue |-> t[i].Revenue,
                    Cost |-> t[i].Cost,
                    GrossProfit |-> t[i].GrossProfit,
                    Margin |-> t[i].Margin,
                    Share |-> Round(1000 * t[i].Revenue, total)]]
    IN  StableSort(rows, [i, j \in 1..Len(rows) |-> RevenueDesc(rows[i], rows[j])])

\* premium_pdf_generator.py lines 742, 751, 757: the thresholds of the risk rules
LowMarginPct     == 20   \* percent
ConcentrationPct == 40   \* percent
VolatilityPts    == 5    \* percentage points

\* the 'Margin %' values (tenths of a percent) of the rows of branch b
MarginsOf(d, b) == Column(SelectSeq(d, LAMBDA r : r.Branch = b), "Margin")

\* MeanBelow with the comparison <=
MeanBelowOrAt(m, pct) == SumSeq(m) <= 10 * pct * Len(m)

\* lines 730-742: the mean of the margins m is below pct percent
MeanBelow(m, pct) == SumSeq(m) < 10 * pct * Len(m)

\* lines 756-757: .std() of the margins m (sample standard deviation, ddof = 1)
\* is above pts points; the std of one value is NaN, and NaN > pts is False.
StdAbove(m, pts) ==
    LET n  == Len(m)
        sq == SumSeq([i \in 1..n |-> m[i] * m[i]])
        sm == SumSeq(m)
    IN  n > 1 /\ n * sq - sm * sm > (10 * pts) * (10 * pts) * n * (n - 1)

MaxOf(S) == CHOOSE x \in S : \A y \in S : y <= x

\* ShareAbove with the comparison >=
ShareAtOrAbove(top, total, pct) == 100 * top >= pct * total

\* lines 750-751: top / total * 100 > pct
ShareAbove(top, total, pct) == 100 * top > pct * total

\* lines 739-760: the entries of the rules that trigger, in the order of the
\* code; an entry holds the rule, the number of branches and the names listed.
TriggeredRisks(d) ==
    LET S        == Range(Column(d, "Branch"))
        keys     == SortedKeys(S, [x, y \in S |-> BranchLess(x, y)])
        revenue  == [i \in 1..Len(keys) |-> GroupSum(d, "Branch", keys[i], "Revenue")]
        low      == SelectSeq(keys, LAMBDA b : MeanBelow(MarginsOf(d, b), LowMarginPct))
        volatile == SelectSeq(keys, LAMBDA b : StdAbove(MarginsOf(d, b), VolatilityPts))
    IN  (IF Len(low) > 0
         THEN << [kind |-> "Margin Pressure", count |-> Len(low), names |-> low] >>
         ELSE <<>>)
        \o (IF ShareAbove(MaxOf(Range(revenue)), SumSeq(revenue), ConcentrationPct)
            THEN << [kind |-> "Revenue Concentration", count |-> 1, names |-> <<>>] >>
            ELSE <<>>)
        \o (IF Len(volatile) > 0
            THEN << [kind |-> "Margin Volatility", count |-> Len(volatile), names |-> <<>>] >>
            ELSE <<>>)

LowRiskProfile == [kind |-> "Low Risk Profile", count |-> 0, names |-> <<>>]

\* RiskAnalysis without the fallback entry
RiskAnalysisNoFallback(d) == TriggeredRisks(d)

\* lines 739-763: the risk list of _create_risk_opportunity_analysis
RiskAnalysis(d) ==
    IF Len(TriggeredRisks(d)) = 0 THEN << LowRiskProfile >> ELSE TriggeredRisks(d)

HighMarginPct == 25   \* percent (line 777)

\* Exact arithmetic for the amounts of lines 782-788: a fraction num / den in
\* lowest terms with den > 0.
Abs(x) == IF x < 0 THEN -x ELSE x

RECURSIVE Gcd(_, _)
Gcd(a, b) == IF b = 0 THEN a ELSE Gcd(b, a % b)

Lcm(a, b) == (a \div Gcd(a, b)) * b

Frac(n, d) ==
    LET g == Gcd(Abs(n), d)
    IN  [num |-> n \div g, den |-> d \div g]

FracAdd(x, y) ==
    LET l == Lcm(x.den, y.den)
    IN  Frac(x.num * (l \div x.den) + y.num * (l \div y.den), l)

FracSub(x, y) == FracAdd(x, [num |-> -y.num, den |-> y.den])

\* x / c for an integer c > 0
FracDiv(x, c) ==
    LET g == Gcd(Abs(x.num), c)
    IN  [num |-> x.num \div g, den |-> x.den * (c \div g)]

\* c * x for an integer c >= 0
FracScale(c, x) ==
    LET g == Gcd(c, x.den)
    IN  [num |-> (c \div g) * x.num, den |-> x.den \div g]

FracLess(x, y) == FracSub(x, y).num < 0

RECURSIVE FracSum(_)
FracSum(s) ==
    IF Len(s) = 0 THEN [num |-> 0, den |-> 1] ELSE FracAdd(Head(s), FracSum(Tail(s)))

\* BelowAverage with the comparison <=
BelowOrAtAverage(margin, avg_margin) == FracSub(margin, avg_margin).num <= 0

\* line 784: branch_totals['Margin %'] < avg_margin
BelowAverage(margin, avg_margin) == FracLess(margin, avg_margin)

\* line 734: the 'mean' of a branch's Margin %, in tenths of a percent
MeanMargin(d, b) == Frac(SumSeq(MarginsOf(d, b)), Len(MarginsOf(d, b)))

\* line 782: avg_margin, the mean of the branch means, in tenths of a percent
AvgMargin(d, keys) ==
    FracDiv(FracSum([i \in 1..Len(keys) |-> MeanMargin(d, keys[i])]), Len(keys))

\* line 788: Revenue * (avg_margin - Margin %) / 100 for one branch, in pounds
MarginGap(d, b, avg_margin) ==
    FracScale(GroupSum(d, "Branch", b, "Revenue"),
              FracDiv(FracSub(avg_margin, MeanMargin(d, b)), 1000))

\* lines 773-795: the opportunities, in the order of the code
Opportunities(d) ==
    LET S        == Range(Column(d, "Branch"))
        keys     == SortedKeys(S, [x, y \in S |-> BranchLess(x, y)])
        avg_margin == AvgMargin(d, keys)
        high     == SelectSeq(keys, LAMBDA b :
                        FracLess([num |-> 10 * HighMarginPct, den |-> 1],
                                 MeanMargin(d, b)))
        below    == SelectSeq(keys, LAMBDA b :
                        BelowAverage(MeanMargin(d, b), avg_margin))
        value    == FracSum([i \in 1..Len(below) |->
                        MarginGap(d, below[i], avg_margin)])
    IN  (IF Len(high) > 0
         THEN << [kind |-> "Best Practice Replication", names |-> high,
                  num |-> 0, den |-> 1] >>
         ELSE <<>>)
        \o (IF Len(below) > 0
            THEN << [kind |-> "Margin Enhancement", names |-> <<>>,
                     num |-> value.num, den |-> value.den] >>
            ELSE <<>>)
        \o << [kind |-> "Scale Optimization", names |-> <<>>,
               num |-> SumSeq(Column(d, "Revenue")), den |-> 1] >>

\* The frame handed to generate_report, sorted in place by the text of Period
\* and by Branch
SortedInPlace(d) ==
    StableSort(d, [i, j \in 1..Len(d) |->
        \/ StrLess(d[i].Period, d[j].Period)
        \/ (d[i].Period = d[j].Period /\ BranchLess(d[i].Branch, d[j].Branch))])

\* The frame handed to generate_report once every section has run: the
\* sections read it and sort or aggregate frames derived from it (df_sorted,
\* branch_df, groupby results, display_df = df[...].copy()).
AfterSections(d) == d

\* generate_report on the table the dashboard shows; the button can be
\* clicked again on the same table
GenerateReport ==
    /\ pc \in {"dashboard", "report"}
    /\ pc' = "report"
    /\ period_summary' = PeriodSummary(filtered_df)
    /\ pdf_branch_totals' = PdfBranchTotals(filtered_df)
    /\ risks' = RiskAnalysis(filtered_df)
    /\ opportunities' = Opportunities(filtered_df)
    /\ filtered_df' = AfterSections(filtered_df)
    /\ UNCHANGED <<idx, data_list, cost_data, df, err, err_info, cost_columns, branch_totals, kpi, row, branches>>
    /\ UNCHANGED <<locVars, cacheVars, authVars>>

-----------------------------------------------------------------------------

\* get_latest_files: no file found yet
NoFile == [location |-> 0, file |-> 0]

\* get_latest_files is not running
LocateIdle ==
    /\ fs = [l \in 1..3 |-> [exists |-> l = 2, rev |-> <<>>, cost |-> <<>>]]
    /\ loc = 1
    /\ revenue_file = NoFile
    /\ costs_file = NoFile
    /\ loc_pc = "idle"

NumSessions == 2    \* sessions that share the cache

Sessions == 1..NumSessions

Paths == {"A", "B"}    \* the files that match the revenue pattern

\* what load_data read: the file, the mtime it had, and the time at which
\* get_latest_files resolved it as the latest
NoSource == [path |-> "", mtime |-> 0, resolved |-> -1]

\* the result load_data returns for what it read: the table of that file
SourceOf(v) == [path |-> v.path, mtime |-> v.mtime]

NoEntry == [value |-> NoSource, created |-> -1]

NoFilesEntry == [value |-> "", created |-> -1]

\* file A on disk, both caches empty, sessions in the state st
CacheStart(st) ==
    /\ now = 0
    /\ disk = [p \in Paths |-> IF p = "A" THEN 1 ELSE 0]
    /\ load_cache = NoEntry
    /\ files_cache = NoFilesEntry
    /\ spc = [s \in Sessions |-> st]
    /\ button = [s \in Sessions |-> FALSE]
    /\ src = [s \in Sessions |-> NoSource]
    /\ how = [s \in Sessions |-> "none"]
    /\ calls = 0
    /\ caller = 0
    /\ result = SourceOf(NoSource)

\* no session has run the script yet
AuthStart ==
    /\ session_state = [s \in Sessions |-> [has_auth |-> FALSE, auth |-> FALSE]]
    /\ password_input = [s \in Sessions |-> <<>>]
    /\ apc = [s \in Sessions |-> "idle"]
    /\ run_auth = [s \in Sessions |-> FALSE]

\* a script run enters load_data with the branch list bs configured
MainStart(bs) ==
    /\ branches = bs
    /\ row = NoRow
    /\ pc = "revenue_loop"
    /\ idx = 0
    /\ data_list = <<>>
    /\ cost_data = <<>>
    /\ df = <<>>
    /\ err = "none"
    /\ err_info = NoErrInfo
    /\ cost_columns = {}
    /\ filtered_df = <<>>
    /\ branch_totals = <<>>
    /\ kpi = NoKpi
    /\ period_summary = <<>>
    /\ pdf_branch_totals = <<>>
    /\ risks = <<>>
    /\ opportunities = <<>>

MainInit == MainStart(ConfiguredBranches)

Init == MainInit /\ LocateIdle /\ CacheStart("off") /\ AuthStart

Next ==
    \/ FilesNotFound
    \/ ReadRevenueRow
    \/ EndRevenueLoop
    \/ ReadCostRow
    \/ FinishLoad
    \/ BindResult
    \/ Dashboard
    \/ GenerateReport

Spec == Init /\ [][Next]_vars

-----------------------------------------------------------------------------
(* The end-to-end scenario: two branches, two period total rows below the  *)
(* four rows load_data skips, two rows of costs.  load_data reads revenue   *)
(* and costs only: the workbook's hours rows have no column, loop or field  *)
(* in it.                                                                   *)

ScenarioBranches == <<"North", "South">>

\* the rows above the first period total row: any label, any period cell
ScenarioHeaderRows ==
    { [description |-> d, period_val |-> read_excel(p), cells |-> <<NaNCell, NaNCell>>] :
        d \in Descriptions, p \in PeriodCells }

ScenarioRevenue ==
    << [description |-> TOTAL, period_val |-> Num(1),
        cells |-> <<Num(1000), read_excel(Text(<<"n", "/", "a">>))>>],
       [description |-> TOTAL, period_val |-> Num(2),
        cells |-> <<Num(1200), Num(800)>>] >>

ScenarioCosts ==
    << [Period |-> Num(1), cells |-> <<Num(600), NaNCell>>],
       [Period |-> Num(2), cells |-> <<Num(700), Num(500)>>] >>

ScenarioRevenueRow ==
    /\ idx < HeaderRows + Len(ScenarioRevenue)
    /\ ReadRevenueRowOf(IF idx < HeaderRows
                        THEN ScenarioHeaderRows
                        ELSE { ScenarioRevenue[idx - HeaderRows + 1] })

ScenarioEndRevenue ==
    /\ idx = HeaderRows + Len(ScenarioRevenue)
    /\ EndRevenueLoopWith({ Range(ScenarioBranches) })

ScenarioCostRow ==
    /\ idx < Len(ScenarioCosts)
    /\ ReadCostRowOf({ ScenarioCosts[idx + 1] })

ScenarioFinishLoad ==
    /\ idx = Len(ScenarioCosts)
    /\ FinishLoad

InitScenario == MainStart(ScenarioBranches) /\ LocateIdle /\ CacheStart("off") /\ AuthStart

NextScenario ==
    \/ ScenarioRevenueRow
    \/ ScenarioEndRevenue
    \/ ScenarioCostRow
    \/ ScenarioFinishLoad
    \/ BindResult
    \/ Dashboard
    \/ GenerateReport

SpecScenario == InitScenario /\ [][NextScenario]_vars

-----------------------------------------------------------------------------
(* get_latest_files (lines 72-108): the search for the two workbooks.  A   *)
(* file is named by its location and its place in the list glob returns.   *)

possible_locations == <<"data", ".", "uploads">>

\* The mtimes of the files one glob may list in one location, in glob's order.
MtimeLists == { <<>>, <<1>>, <<1, 2>>, <<2, 1>>, <<2, 2>> }

Dirs == [exists : BOOLEAN, rev : MtimeLists, cost : MtimeLists]

\* "." always exists; a location that does not exist holds no file
FileSystems ==
    { f \in [1..Len(possible_locations) -> Dirs] :
        /\ f[2].exists
        /\ \A l \in DOMAIN f : ~f[l].exists => (f[l].rev = <<>> /\ f[l].cost = <<>>) }

\* max(files, key=mtime): the first file of the list with the greatest mtime
LatestOf(m) ==
    CHOOSE i \in 1..Len(m) :
        /\ \A j \in 1..Len(m) : m[j] <= m[i]
        /\ \A j \in 1..(i - 1) : m[j] < m[i]

\* lines 85-98: one pass of the loop body
ScanLocation ==
    /\ loc_pc = "scan"
    /\ LET d  == fs[loc]
           rf == IF d.exists /\ Len(d.rev) > 0
                 THEN [location |-> loc, file |-> LatestOf(d.rev)]
                 ELSE revenue_file
           cf == IF d.exists /\ Len(d.cost) > 0
                 THEN [location |-> loc, file |-> LatestOf(d.cost)]
                 ELSE costs_file
       IN  /\ revenue_file' = rf
           /\ costs_file' = cf
           /\ IF (d.exists /\ rf # NoFile /\ cf # NoFile) \/ loc = Len(possible_locations)
              THEN loc_pc' = "after_loop" /\ loc' = loc
              ELSE loc_pc' = "scan" /\ loc' = loc + 1
    /\ UNCHANGED <<fs, mainVars, cacheVars, authVars>>

\* lines 100-106: st.stop() when either file is missing
StopNotFound ==
    /\ loc_pc = "after_loop"
    /\ revenue_file = NoFile \/ costs_file = NoFile
    /\ loc_pc' = "stopped"
    /\ UNCHANGED <<fs, loc, revenue_file, costs_file, mainVars, cacheVars, authVars>>

\* line 108
ReturnFiles ==
    /\ loc_pc = "after_loop"
    /\ revenue_file # NoFile /\ costs_file # NoFile
    /\ loc_pc' = "returned"
    /\ UNCHANGED <<fs, loc, revenue_file, costs_file, mainVars, cacheVars, authVars>>

InitLocate ==
    /\ MainInit
    /\ CacheStart("off") /\ AuthStart
    /\ fs \in FileSystems
    /\ loc = 1
    /\ revenue_file = NoFile
    /\ costs_file = NoFile
    /\ loc_pc = "scan"

NextLocate == ScanLocation \/ StopNotFound \/ ReturnFiles

SpecLocate == InitLocate /\ [][NextLocate]_vars

-----------------------------------------------------------------------------
(* st.cache_data(ttl=60) around load_data and get_latest_files, shared by   *)
(* the sessions of the app.  A result of load_data is named by the source   *)
(* it was read from: the path get_latest_files gave and the mtime the file  *)
(* had when it was read.                                                    *)

TTL == 60              \* seconds

MaxTime     == 80      \* the clock stops here
TickSeconds == 20      \* the clock advances in steps of this size
MaxCalls    == 3       \* calls of load_data, all sessions together
MaxStamp    == 2       \* mtimes run from 1 to this

\* FreshEntry with an entry still served at the moment its ttl has run out
FreshInclusive(e, t) == e.created >= 0 /\ t - e.created <= TTL

\* the cache serves entry e at time t (it expires once ttl seconds have passed)
FreshEntry(e, t) == e.created >= 0 /\ t - e.created < TTL

\* max(..., key=st_mtime) over the files on disk
LatestPath(d) == CHOOSE p \in Paths : d[p] > 0 /\ \A q \in Paths : d[q] <= d[p]

\* the lock of the cache key with nobody holding it
LockIgnored == TRUE

\* the lock that guards the computation of a cache key is not held
LockFree == \A t \in Sessions : spc[t] # "computing"

\* lines 354-356: a run that got past line 332 with the button clicked clears
\* every st.cache_data cache (and reruns); e is the entry of load_data
\* after the call of line 328.
AfterCall(s, ok, e) ==
    /\ button' = [button EXCEPT ![s] = FALSE]
    /\ IF button[s] /\ ok
       THEN load_cache' = NoEntry /\ files_cache' = NoFilesEntry
       ELSE load_cache' = e /\ UNCHANGED files_cache

\* the call of load_data by session s ends with outcome h and value v
EndCall(s, h, v) ==
    /\ spc' = [spc EXCEPT ![s] = "idle"]
    /\ src' = [src EXCEPT ![s] = NoSource]
    /\ how' = [how EXCEPT ![s] = h]
    /\ calls' = calls + 1
    /\ caller' = s
    /\ result' = SourceOf(v)

Tick ==
    /\ \E s \in Sessions : spc[s] # "off"
    /\ now + TickSeconds <= MaxTime
    /\ now' = now + TickSeconds
    /\ UNCHANGED <<disk, load_cache, files_cache, spc, button, src, how, calls, caller, result,
                   mainVars, locVars, authVars>>

\* a source file is saved again, or a new matching file is written
Touch(p) ==
    /\ \E s \in Sessions : spc[s] # "off"
    /\ disk[LatestPath(disk)] < MaxStamp
    /\ disk' = [disk EXCEPT ![p] = disk[LatestPath(disk)] + 1]
    /\ UNCHANGED <<now, load_cache, files_cache, spc, button, src, how, calls, caller, result,
                   mainVars, locVars, authVars>>

\* the user clicks Refresh Data on a page that shows the button
ClickRefresh(s) ==
    /\ spc[s] = "idle"
    /\ how[s] \in {"hit", "computed"}
    /\ ~button[s]
    /\ calls < MaxCalls
    /\ button' = [button EXCEPT ![s] = TRUE]
    /\ UNCHANGED <<now, disk, load_cache, files_cache, spc, src, how, calls, caller, result,
                   mainVars, locVars, authVars>>

\* line 328, the cache holds a result: it is returned
CallHit(s) ==
    /\ spc[s] = "idle"
    /\ calls < MaxCalls
    /\ FreshEntry(load_cache, now)
    /\ EndCall(s, "hit", load_cache.value)
    /\ AfterCall(s, TRUE, load_cache)
    /\ UNCHANGED <<now, disk, mainVars, locVars, authVars>>

\* line 328, the cache holds no result: the call goes for the lock of its key
CallMiss(s) ==
    /\ spc[s] = "idle"
    /\ calls < MaxCalls
    /\ ~FreshEntry(load_cache, now)
    /\ spc' = [spc EXCEPT ![s] = "wait_lock"]
    /\ UNCHANGED <<now, disk, load_cache, files_cache, button, src, how, calls, caller, result,
                   mainVars, locVars, authVars>>

\* the lock is taken and the cache, read again, now holds a result
LockedHit(s) ==
    /\ spc[s] = "wait_lock"
    /\ LockFree
    /\ FreshEntry(load_cache, now)
    /\ EndCall(s, "hit", load_cache.value)
    /\ AfterCall(s, TRUE, load_cache)
    /\ UNCHANGED <<now, disk, mainVars, locVars, authVars>>

\* the lock is taken and the cache still holds no result: load_data runs.
\* Line 115 calls get_latest_files through its own cache; lines 118 and 150
\* read the files it names.
StartCompute(s) ==
    /\ spc[s] = "wait_lock"
    /\ LockFree
    /\ ~FreshEntry(load_cache, now)
    /\ LET hit  == FreshEntry(files_cache, now)
           path == IF hit THEN files_cache.value ELSE LatestPath(disk)
       IN  /\ files_cache' = IF hit THEN files_cache
                                    ELSE [value |-> path, created |-> now]
           /\ src' = [src EXCEPT ![s] =
                         [path |-> path, mtime |-> disk[path],
                          resolved |-> IF hit THEN files_cache.created ELSE now]]
    /\ spc' = [spc EXCEPT ![s] = "computing"]
    /\ UNCHANGED <<now, disk, load_cache, button, how, calls, caller, result, mainVars, locVars, authVars>>

\* load_data returns: the result is stored and the lock released
FinishCompute(s) ==
    /\ spc[s] = "computing"
    /\ EndCall(s, "computed", src[s])
    /\ AfterCall(s, TRUE, [value |-> src[s], created |-> now])
    /\ UNCHANGED <<now, disk, mainVars, locVars, authVars>>

\* load_data raises: nothing is stored, the lock is released, and lines
\* 329-332 stop the run
FailCompute(s) ==
    /\ spc[s] = "computing"
    /\ EndCall(s, "raised", NoSource)
    /\ AfterCall(s, FALSE, load_cache)
    /\ UNCHANGED <<now, disk, mainVars, locVars, authVars>>

InitCache == MainInit /\ LocateIdle /\ CacheStart("idle") /\ AuthStart

NextCache ==
    \/ Tick
    \/ \E p \in Paths : Touch(p)
    \/ \E s \in Sessions : ClickRefresh(s)
    \/ \E s \in Sessions : CallHit(s)
    \/ \E s \in Sessions : CallMiss(s)
    \/ \E s \in Sessions : LockedHit(s)
    \/ \E s \in Sessions : StartCompute(s)
    \/ \E s \in Sessions : FinishCompute(s)
    \/ \E s \in Sessions : FailCompute(s)

SpecCache == InitCache /\ [][NextCache]_vars

-----------------------------------------------------------------------------
(* The password gate (lines 38-69) at the top of the script, in each        *)
(* session.  Every interaction of the user reruns the script from the top.  *)

\* line 42: config['dashboard'].get('password', 'Demo2024')
PASSWORD == <<"D", "e", "m", "o", "2", "0", "2", "4">>

\* what a user may leave in the text input
Passwords == { <<>>, PASSWORD, <<"d", "e", "m", "o", "2", "0", "2", "4">> }

\* AfterStop with the script going on below the gate
AfterStopGoesOn == "load_data"

\* line 69, st.stop(): the run ends
AfterStop == "idle"

\* the gate page shows the text input
GateShown(s) == session_state[s].has_auth /\ ~session_state[s].auth

\* the page is opened, or the user acts on a widget: the script runs from the
\* top; on the gate page the act may be a new text in the input
StartRun(s) ==
    /\ apc[s] = "idle"
    /\ apc' = [apc EXCEPT ![s] = "gate"]
    /\ run_auth' = [run_auth EXCEPT ![s] = session_state[s].auth]
    /\ \E p \in Passwords :
          password_input' = [password_input EXCEPT ![s] =
                                IF GateShown(s) THEN p ELSE password_input[s]]
    /\ UNCHANGED <<session_state, mainVars, locVars, cacheVars>>

\* lines 39-69
Gate(s) ==
    /\ apc[s] = "gate"
    /\ LET auth == session_state[s].has_auth /\ session_state[s].auth
       IN  IF auth
           THEN /\ apc' = [apc EXCEPT ![s] = "load_data"]
                /\ UNCHANGED <<session_state, run_auth>>
           ELSE IF password_input[s] = PASSWORD
           THEN \* lines 64-65: auth is set and st.rerun() starts a new run
                /\ session_state' = [session_state EXCEPT ![s] =
                                        [has_auth |-> TRUE, auth |-> TRUE]]
                /\ run_auth' = [run_auth EXCEPT ![s] = TRUE]
                /\ UNCHANGED apc
           ELSE /\ session_state' = [session_state EXCEPT ![s] =
                                        [has_auth |-> TRUE, auth |-> FALSE]]
                /\ apc' = [apc EXCEPT ![s] = AfterStop]
                /\ UNCHANGED run_auth
    /\ UNCHANGED <<password_input, mainVars, locVars, cacheVars>>

\* lines 327-332: load_data, and get_latest_files inside it, return, or the
\* run is stopped
LoadData(s) ==
    /\ apc[s] = "load_data"
    /\ \E next \in {"dashboard", "idle"} : apc' = [apc EXCEPT ![s] = next]
    /\ UNCHANGED <<session_state, password_input, run_auth, mainVars, locVars, cacheVars>>

\* lines 335-630: the sidebar, the filter, the aggregates and the page
DashboardSteps(s) ==
    /\ apc[s] = "dashboard"
    /\ apc' = [apc EXCEPT ![s] = "idle"]
    /\ UNCHANGED <<session_state, password_input, run_auth, mainVars, locVars, cacheVars>>

InitAuth == MainInit /\ LocateIdle /\ CacheStart("off") /\ AuthStart

NextAuth ==
    \/ \E s \in Sessions : StartRun(s)
    \/ \E s \in Sessions : Gate(s)
    \/ \E s \in Sessions : LoadData(s)
    \/ \E s \in Sessions : DashboardSteps(s)

SpecAuth == InitAuth /\ [][NextAuth]_vars

-----------------------------------------------------------------------------
(* Vocabulary of the properties *)

Pair(r) == <<StrToInt(r.Period), r.Branch>>

Pairs(d) == { Pair(d[i]) : i \in 1..Len(d) }

\* no two rows of d carry the same (Period, Branch)
DistinctPairs(d) == \A i, j \in 1..Len(d) : i # j => Pair(d[i]) # Pair(d[j])

\* the number of rows of d that carry the pair of r
Occurrences(d, r) == Cardinality({ j \in 1..Len(d) : Pair(d[j]) = Pair(r) })

\* load_data has just returned: its locals are still in view
Returned == pc = "loaded"

\* the Cost values the costs table records for the pair of r
CostsOf(r) == { cost_data[i].Cost : i \in { j \in 1..Len(cost_data) : Pair(cost_data[j]) = Pair(r) } }

-----------------------------------------------------------------------------
(* C1..C10 *)

\* C1 (join completeness): when load_data returns, every (Period, Branch) pair
\* of the revenue-side extraction appears exactly once in the FactTable, also
\* when the costs table holds several rows for one period.  Stated for an
\* extraction whose own pairs are distinct, so that only the merge is tested.
C1_JoinCompleteness ==
    (Returned /\ DistinctPairs(data_list))
        => \A i \in 1..Len(data_list) : Occurrences(df, data_list[i]) = 1

\* C2 (no duplicate pairs): no two records of the FactTable share a
\* (Period, Branch) pair, also when two TOTAL rows carry the same period.
\* Stated for a costs table whose own pairs are distinct, so that only the
\* revenue extraction is tested.
C2_NoDuplicatePairs ==
    (Returned /\ DistinctPairs(cost_data)) => DistinctPairs(df)

\* C3 (positive revenue): every record extracted from the revenue matrix, and
\* every record of the FactTable, has Revenue > 0: cells that are not numeric,
\* zero or negative yield no record.
C3_RevenuePositive ==
    /\ \A i \in 1..Len(data_list) : data_list[i].Revenue > 0
    /\ \A i \in 1..Len(df) : df[i].Revenue > 0
    /\ \A i \in 1..Len(filtered_df) : filtered_df[i].Revenue > 0

\* A FactTable holding North's 300 of a period without South's record of that
\* period: the row read had a zero in South's cell, and it was skipped.
C3_Witness ==
    /\ Returned
    /\ \E i \in 1..Len(df) :
         /\ df[i].Branch = "North"
         /\ df[i].Revenue = 300
         /\ \A j \in 1..Len(df) : df[j].Period = df[i].Period => df[j].Branch = "North"

\* C4 (derived columns): in every record of the FactTable, Gross Profit is
\* Revenue - Cost, and Margin % (in tenths) is the tenth nearest to
\* Gross Profit / Revenue * 100, or 0 when Revenue is 0.
C4_DerivedColumns ==
    \A i \in 1..Len(df) :
        LET r == df[i]
            d == r.Margin * r.Revenue - 1000 * r.GrossProfit
        IN  /\ r.GrossProfit = r.Revenue - r.Cost
            /\ IF r.Revenue = 0 THEN r.Margin = 0
               ELSE /\ 2 * d <= r.Revenue
                    /\ -2 * d <= r.Revenue

\* A FactTable with a margin that had to be rounded up and a negative margin
\* that had to be rounded.
C4_Witness ==
    /\ Returned
    /\ \E i \in 1..Len(df) :
         df[i].GrossProfit > 0 /\ df[i].Margin * df[i].Revenue > 1000 * df[i].GrossProfit
    /\ \E i \in 1..Len(df) :
         df[i].GrossProfit < 0 /\ df[i].Margin * df[i].Revenue # 1000 * df[i].GrossProfit

\* C5 (cost of a record): when load_data returns, the Cost of every record is
\* a cost the costs table records for its (Period, Branch), and 0 when the
\* table records none for it (no row of that period, or a cell that is not
\* numeric).
C5_CostOfRecord ==
    Returned =>
        \A i \in 1..Len(df) :
            IF CostsOf(df[i]) = {} THEN df[i].Cost = 0 ELSE df[i].Cost \in CostsOf(df[i])

\* A FactTable with a record whose cost was matched, a record of a period the
\* costs table lacks, and a record whose period has a costs row but whose own
\* cell in it was not numeric.
C5_Witness ==
    /\ Returned
    /\ \E i \in 1..Len(df) : CostsOf(df[i]) # {} /\ df[i].Cost > 0
    /\ \E i \in 1..Len(df) :
         /\ CostsOf(df[i]) = {}
         /\ \A j \in 1..Len(cost_data) : cost_data[j].Period # df[i].Period
    /\ \E i \in 1..Len(df) :
         /\ CostsOf(df[i]) = {}
         /\ \E j \in 1..Len(cost_data) : cost_data[j].Period = df[i].Period

\* some record of the costs table has no revenue-side record
UnmatchedCost == \E i \in 1..Len(cost_data) : Pair(cost_data[i]) \notin Pairs(data_list)

\* C6 (unmatched costs are dropped): when the costs loop has ended with a cost
\* record whose pair has no revenue-side record, load_data raises nothing and
\* returns a FactTable whose pairs are those of the revenue-side extraction.
C6_UnmatchedCostDropped ==
    [][(pc = "cost_loop" /\ pc' # "cost_loop" /\ UnmatchedCost)
          => (pc' = "loaded" /\ Pairs(df') = Pairs(data_list))]_vars

\* C7 (order): the FactTable is in ascending integer order of Period, and in
\* ascending order of Branch name within one period.
C7_Sorted ==
    \A i, j \in 1..Len(df) :
        i < j =>
            \/ StrToInt(df[i].Period) < StrToInt(df[j].Period)
            \/ /\ StrToInt(df[i].Period) = StrToInt(df[j].Period)
               /\ BranchRank(df[i].Branch) <= BranchRank(df[j].Branch)

\* A FactTable with periods 2 and 10 and both branches in one period, from an
\* extraction that met period 10 first.
C7_Witness ==
    /\ Returned
    /\ Len(data_list) >= 3
    /\ data_list[1].Period = <<1, 0>>
    /\ df[1].Period = <<2>>
    /\ \E i \in 1..(Len(df) - 1) :
         df[i].Period = df[i + 1].Period /\ df[i].Branch # df[i + 1].Branch

\* the sums of column f over the table d and over the aggregate t agree
Conserved(d, t, f) == SumSeq(Column(t, f)) = SumSeq(Column(d, f))

\* C8 (conservation): the per-branch totals of Revenue, Cost and Gross Profit
\* add up to the sums over the records of the table they aggregate, in the
\* dashboard's branch totals and in the report's.
C8_Conservation ==
    /\ pc \in {"dashboard", "report"} =>
          /\ Conserved(filtered_df, branch_totals, "Revenue")
          /\ Conserved(filtered_df, branch_totals, "Cost")
          /\ Conserved(filtered_df, branch_totals, "GrossProfit")
          /\ kpi.total_revenue = SumSeq(Column(branch_totals, "Revenue"))
          /\ kpi.total_cost = SumSeq(Column(branch_totals, "Cost"))
          /\ kpi.total_profit = SumSeq(Column(branch_totals, "GrossProfit"))
    /\ pc = "report" =>
          /\ Conserved(filtered_df, pdf_branch_totals, "Revenue")
          /\ Conserved(filtered_df, pdf_branch_totals, "Cost")
          /\ Conserved(filtered_df, pdf_branch_totals, "GrossProfit")

\* A report on a filtered subset of the FactTable in which each of the two
\* branches has several records.
C8_Witness ==
    /\ pc = "report"
    /\ Len(filtered_df) < Len(df)
    /\ Len(branch_totals) = 2
    /\ Len(filtered_df) >= 4

\* the index in t of the period that precedes period i of t in integer order
IntPredecessors(t, i) ==
    { j \in 1..Len(t) :
        /\ StrToInt(t[j].Period) < StrToInt(t[i].Period)
        /\ \A k \in 1..Len(t) :
             StrToInt(t[k].Period) < StrToInt(t[i].Period)
                 => StrToInt(t[k].Period) <= StrToInt(t[j].Period) }

\* C9 (growth): in the period summary, the Growth % of every period but the
\* first in integer order is 100 * (cur - prev) / prev, prev being the
\* Revenue of the period that precedes it in integer order.
C9_GrowthAgainstPredecessor ==
    pc = "report" =>
        \A i \in 1..Len(period_summary) :
            \A j \in IntPredecessors(period_summary, i) :
                LET g == period_summary[i].Growth
                IN  /\ ~g.nan
                    /\ ~g.inf
                    /\ g.num * period_summary[j].Revenue
                         = g.den * 100 * (period_summary[i].Revenue - period_summary[j].Revenue)

\* C10 (growth undefined): in the period summary, Growth % is undefined for
\* the first period in integer order and for a period whose predecessor has a
\* Revenue of zero, and it is never infinite.
C10_GrowthUndefined ==
    pc = "report" =>
        \A i \in 1..Len(period_summary) :
            LET g == period_summary[i].Growth
            IN  /\ ~g.inf
                /\ IntPredecessors(period_summary, i) = {} => g.nan
                /\ \A j \in IntPredecessors(period_summary, i) :
                       period_summary[j].Revenue = 0 => g.nan

-----------------------------------------------------------------------------
(* C11..C20 *)

DigitChars == {"0", "1", "2", "3", "4", "5", "6", "7", "8", "9"}

\* the text s holds a digit
HasDigit(s) == \E i \in 1..Len(s) : s[i] \in DigitChars

\* C11 (period from digits): the costs loop takes the first run of digits of a
\* Period cell as the period, so a Period cell that holds text around a number
\* is never refused.
C11_CostPeriodFromDigits ==
    ~(pc = "stopped" /\ err_info.at = "cost_loop" /\ HasDigit(err_info.arg))

\* C12 (placeholder periods are skipped): a row whose period label holds no
\* number is skipped by the revenue loop and by the costs loop; load_data never
\* raises on such a label.
C12_PlaceholderSkipped ==
    ~(pc = "stopped" /\ err = "ValueError" /\ ~HasDigit(err_info.arg))

\* C17 (no partial success): when locating the files fails or load_data
\* raises, the run is stopped with no FactTable, no filtered table and no
\* aggregate; the dashboard and the report run only on a FactTable that
\* load_data returned, and the table they aggregate is made of its records.
C17_NoPartialSuccess ==
    /\ err # "none" =>
          /\ pc = "stopped"
          /\ df = <<>>
          /\ filtered_df = <<>>
          /\ branch_totals = <<>>
          /\ kpi = NoKpi
          /\ period_summary = <<>>
          /\ pdf_branch_totals = <<>>
    /\ pc \in {"loaded", "script", "dashboard", "report"} => (err = "none" /\ Len(df) > 0)
    /\ (branch_totals # <<>> \/ period_summary # <<>> \/ pdf_branch_totals # <<>>) =>
          /\ err = "none"
          /\ Len(filtered_df) > 0
          /\ Range(filtered_df) \subseteq Range(df)

\* load_data raised in the costs loop, after the revenue matrix was read
C17_Witness == pc = "stopped" /\ err = "ValueError" /\ err_info.at = "cost_loop"

\* C18 (schema mismatch): load_data returns a FactTable only when every
\* configured branch has a column in the costs table.
C18_SchemaMismatch == Returned => Range(branches) \subseteq cost_columns

\* the branches of table d
BranchesOf(d) == Range(Column(d, "Branch"))

\* the mean of branch b's 'Margin %' values in d is strictly below 20 %
BelowTwenty(d, b) == SumSeq(MarginsOf(d, b)) < 200 * Len(MarginsOf(d, b))

\* the largest branch revenue total is strictly more than 40 % of the total
Concentrated(d) ==
    \E b \in BranchesOf(d) :
        100 * GroupSum(d, "Branch", b, "Revenue") > 40 * SumSeq(Column(d, "Revenue"))

\* some branch's margins have a standard deviation (as pandas computes it)
\* above 5 points
Volatile(d) == \E b \in BranchesOf(d) : StdAbove(MarginsOf(d, b), 5)

Kinds(rs) == { rs[i].kind : i \in 1..Len(rs) }

\* C19 (risk list never empty): the risk list of a report holds at least one
\* entry; it is the single 'Low Risk Profile' entry exactly when none of the
\* three rules triggered, and holds no such entry when a rule triggered.
C19_RiskListNeverEmpty ==
    pc = "report" =>
        LET any == \/ \E b \in BranchesOf(filtered_df) : BelowTwenty(filtered_df, b)
                   \/ Concentrated(filtered_df)
                   \/ Volatile(filtered_df)
        IN  /\ Len(risks) > 0
            /\ (risks = << LowRiskProfile >>) <=> ~any
            /\ any => "Low Risk Profile" \notin Kinds(risks)

\* a report whose risk list is the fallback entry
C19_Witness == pc = "report" /\ risks = << LowRiskProfile >>

\* C20 (margin pressure): the risk list holds a 'Margin Pressure' entry if and
\* only if some branch's margin is strictly below 20 %, and the entry names
\* exactly those branches.
C20_MarginPressure ==
    pc = "report" =>
        LET low == { b \in BranchesOf(filtered_df) : BelowTwenty(filtered_df, b) }
        IN  /\ ("Margin Pressure" \in Kinds(risks)) <=> (low # {})
            /\ \A i \in 1..Len(risks) :
                  risks[i].kind = "Margin Pressure" =>
                      /\ Range(risks[i].names) = low
                      /\ Len(risks[i].names) = Cardinality(low)

\* a report with a 'Margin Pressure' entry while another branch sits at
\* exactly 20 %
C20_Witness ==
    /\ pc = "report"
    /\ "Margin Pressure" \in Kinds(risks)
    /\ \E b \in BranchesOf(filtered_df) :
          SumSeq(MarginsOf(filtered_df, b)) = 200 * Len(MarginsOf(filtered_df, b))

\* the highest-priority location that exists and lists a match of the pattern
\* (0 when there is none)
FirstWith(f, pattern) ==
    LET S == { l \in DOMAIN f : f[l].exists /\ Len(f[l][pattern]) > 0 }
    IN  IF S = {} THEN 0 ELSE CHOOSE l \in S : \A k \in S : l <= k

\* file x is the most recently modified file of the list m
MostRecent(m, x) == \A j \in 1..Len(m) : m[j] <= m[x]

\* C13 (location priority): each file get_latest_files returns is the most
\* recently modified match of the highest-priority location that holds a match
\* of its pattern.
C13_HighestPriorityLocation ==
    loc_pc = "returned" =>
        /\ revenue_file.location = FirstWith(fs, "rev")
        /\ MostRecent(fs[revenue_file.location].rev, revenue_file.file)
        /\ costs_file.location = FirstWith(fs, "cost")
        /\ MostRecent(fs[costs_file.location].cost, costs_file.file)

\* the call of load_data by session s ends in this step
Ends(s) == calls' = calls + 1 /\ caller' = s

\* session s invokes load_data in this step
Invokes(s) == spc[s] = "idle" /\ (Ends(s) \/ spc'[s] # "idle")

\* load_data computed less than 60 seconds ago and no refresh has cleared
\* the result since
Memoized == load_cache # NoEntry /\ now - load_cache.created < 60

\* the source a computation would read now
CurrentSource == [path |-> LatestPath(disk), mtime |-> disk[LatestPath(disk)]]

C14_Step ==
    \A s \in Sessions :
        /\ (Invokes(s) /\ Memoized) =>
              /\ Ends(s)
              /\ how'[s] = "hit"
              /\ result' = SourceOf(load_cache.value)
              /\ \A t \in Sessions : spc'[t] = "computing" => spc[t] = "computing"
        /\ (Invokes(s) /\ ~Memoized) => (~Ends(s) /\ spc'[s] = "wait_lock")
        /\ (Ends(s) /\ how'[s] = "hit") => (Memoized /\ result' = SourceOf(load_cache.value))
        /\ (spc[s] = "wait_lock" /\ ~Memoized /\ spc'[s] # "wait_lock") =>
              (spc'[s] = "computing" /\ SourceOf(src'[s]) \in { [path |-> p, mtime |-> disk[p]] : p \in Paths })
        /\ (Ends(s) /\ button[s] /\ how'[s] # "raised") => load_cache' = NoEntry

\* C14 (TTL and refresh): an invocation made while load_data's result is less
\* than 60 seconds old and no refresh has run returns the memoized result and
\* starts no computation; an invocation made once the TTL has elapsed or after
\* Refresh Data has run goes on to compute from the files; no memoized result
\* is served once its TTL has elapsed or a refresh has cleared it.
C14_TtlAndRefresh == [][C14_Step]_vars

\* a memoized result was served, and the cache was filled again 60 seconds or
\* more after the start
C14_Witness ==
    /\ \E s \in Sessions : how[s] = "hit"
    /\ load_cache # NoEntry
    /\ load_cache.created >= 60

\* C15 (keyed on the source): a result served from the cache is the result of
\* the file that is the latest on disk, with the mtime it has now.
C15_KeyedOnSource ==
    [][\A s \in Sessions : (Ends(s) /\ how'[s] = "hit") => result' = CurrentSource]_vars

C16_Step ==
    \A s \in Sessions :
        /\ (spc[s] = "wait_lock" /\ Ends(s)) =>
              (how'[s] = "hit" /\ result' = SourceOf(load_cache.value))
        /\ (spc[s] = "computing" /\ Ends(s) /\ how'[s] = "computed") =>
              /\ result' = SourceOf(src[s])
              /\ ~button[s] => load_cache'.value = src[s]

C21_Concentration ==
    pc = "report" =>
        /\ ("Revenue Concentration" \in Kinds(risks)) <=> Concentrated(filtered_df)
        /\ Cardinality({ i \in 1..Len(risks) : risks[i].kind = "Revenue Concentration" }) <= 1

\* a report whose largest branch holds exactly 40 % of the revenue
C21_Witness ==
    /\ pc = "report"
    /\ \E b \in BranchesOf(filtered_df) :
          100 * GroupSum(filtered_df, "Branch", b, "Revenue")
              = 40 * SumSeq(Column(filtered_df, "Revenue"))
    /\ ~Concentrated(filtered_df)

\* the population standard deviation (divisor n; 0 for one value) of the
\* margins m, in tenths of a percent, exceeds 5 percentage points
PopulationStdAboveFive(m) ==
    LET n  == Len(m)
        sq == SumSeq([i \in 1..n |-> m[i] * m[i]])
        sm == SumSeq(m)
    IN  n * sq - sm * sm > 2500 * n * n

\* C22 (volatility): the risk list holds a 'Margin Volatility' entry if and
\* only if the population standard deviation of some branch's margins exceeds
\* 5 percentage points (for a table with one record per period and branch).
C22_VolatilityPopulationStd ==
    (pc = "report" /\ DistinctPairs(filtered_df)) =>
        (("Margin Volatility" \in Kinds(risks))
            <=> \E b \in BranchesOf(filtered_df) :
                    PopulationStdAboveFive(MarginsOf(filtered_df, b)))

\* x is the arithmetic mean of the values m, to the nearest tenth (x and m in
\* tenths of a percent)
IsMeanOf(x, m) ==
    LET d == Len(m) * x - SumSeq(m)
    IN  2 * d <= Len(m) /\ -2 * d <= Len(m)

\* C26 (branch margin is the mean): in the dashboard's branch totals and in
\* the report's branch ranking, as in the risk analysis, the margin of a
\* branch is the arithmetic mean of the Margin % of its records.
C26_BranchMarginIsMean ==
    (pc \in {"dashboard", "report"} /\ DistinctPairs(filtered_df)) =>
        /\ \A i \in 1..Len(branch_totals) :
              IsMeanOf(branch_totals[i].Margin,
                       MarginsOf(filtered_df, branch_totals[i].Branch))
        /\ \A i \in 1..Len(pdf_branch_totals) :
              IsMeanOf(pdf_branch_totals[i].Margin,
                       MarginsOf(filtered_df, pdf_branch_totals[i].Branch))

\* C24 (the fact table is immutable): once load_data has returned the table,
\* no step changes it, and once the filtered table is on the dashboard no
\* report generation changes its records or their order, so a second report
\* from the same table produces the same sections as the first.
C24_FactTableImmutable ==
    [][/\ (pc \in {"loaded", "script", "dashboard", "report"} => df' = df)
       /\ (pc \in {"dashboard", "report"} => filtered_df' = filtered_df)
       /\ (pc = "report" /\ pc' = "report" =>
              /\ period_summary' = period_summary
              /\ pdf_branch_totals' = pdf_branch_totals
              /\ risks' = risks
              /\ opportunities' = opportunities)]_vars

\* a report was generated from a table that a sort in place would reorder
C24_Witness ==
    /\ pc = "report"
    /\ Len(filtered_df) > 1
    /\ SortedInPlace(filtered_df) # filtered_df

\* the entries of the opportunity list of one kind
EntriesOf(os, kind) == { i \in 1..Len(os) : os[i].kind = kind }

\* C27 (recoverable profit): the 'Margin Enhancement' opportunity is in the list
\* if and only if some branch's margin is strictly below the average of the
\* branch margins; its amount is the sum over exactly those branches of
\* Revenue * (average - margin) / 100, and is strictly positive.
C27_RecoverableProfit ==
    pc = "report" =>
        LET d     == filtered_df
            B     == BranchesOf(d)
            keys  == SortedKeys(B, [x, y \in B |-> BranchLess(x, y)])
            avg   == AvgMargin(d, keys)
            below == SelectSeq(keys, LAMBDA b : FracLess(MeanMargin(d, b), avg))
            total == FracSum([i \in 1..Len(below) |-> MarginGap(d, below[i], avg)])
            es    == EntriesOf(opportunities, "Margin Enhancement")
        IN  /\ (es # {}) <=> (Len(below) > 0)
            /\ Cardinality(es) <= 1
            /\ \A i \in es :
                  /\ opportunities[i].den > 0
                  /\ opportunities[i].num > 0
                  /\ opportunities[i].num * total.den
                        = opportunities[i].den * total.num

\* a report on three branches with a recoverable-profit entry
C27_Witness ==
    /\ pc = "report"
    /\ Cardinality(BranchesOf(filtered_df)) = 3
    /\ \E i \in EntriesOf(opportunities, "Margin Enhancement") :
          opportunities[i].num > 0

\* the script reached the filter step
Filtered == pc \in {"dashboard", "report"} \/ (pc = "stopped" /\ err = "none")

\* C29 (selections are never empty): whatever values the sidebar widgets hold,
\* the selected periods and the selected branches are non-empty at the filter
\* step: an empty custom selection stands for all periods or all branches,
\* and 'Latest Period' selects the period of greatest integer value.  Branch
\* aggregation and the KPIs are computed only from a non-empty filtered
\* table; with an empty one the run stops and computes neither.
C29_SelectionsNonEmpty ==
    /\ pc = "script" =>
          \A w \in SidebarChoices(df) :
              LET sp  == SelPeriods(df, w)
                  sb  == SelBranches(w)
                  all == Range(Column(df, "Period"))
              IN  /\ sp # {} /\ sp \subseteq all
                  /\ sb # {} /\ sb \subseteq Range(branches)
                  /\ (w.period_option = "Custom Selection" /\ w.periods = {}) => sp = all
                  /\ (~w.select_all /\ w.branches = {}) => sb = Range(branches)
                  /\ w.period_option = "Latest Period" =>
                        \E p \in all :
                            /\ sp = {p}
                            /\ \A q \in all : StrToInt(q) <= StrToInt(p)
    /\ Filtered =>
          /\ \E ps \in PeriodSelections(df), bs \in BranchSelections :
                /\ ps # {} /\ bs # {}
                /\ filtered_df = Filter(df, ps, bs)
          /\ (pc = "stopped") <=> (Len(filtered_df) = 0)
          /\ pc = "stopped" => (branch_totals = <<>> /\ kpi = NoKpi)
    /\ pc \in {"dashboard", "report"} =>
          /\ Len(filtered_df) > 0
          /\ Len(branch_totals) > 0
          /\ kpi # NoKpi

\* a run that stopped at the filter step: the selections were not empty but
\* no record of the table is in both
C29_Witness ==
    /\ pc = "stopped" /\ err = "none"
    /\ Len(df) > 1
    /\ Len(filtered_df) = 0

\* with periods 2 and 10 loaded, the dashboard shows period 10 alone
C29_WitnessLatest ==
    /\ pc = "dashboard"
    /\ Range(Column(df, "Period")) = { <<2>>, <<1, 0>> }
    /\ Range(Column(filtered_df, "Period")) = { <<1, 0>> }

\* a step in which the body of the revenue loop ran on the row at index idx
RowRead == pc = "revenue_loop" /\ (idx' = idx + 1 \/ err' = "ValueError")

\* C25 (marker scan): a row of the revenue matrix, at any row index, whose
\* label is 'TOTAL' in any case (and whose period cell is not missing) is
\* treated as a period total row: the loop goes on and the row adds one record
\* per branch with a positive revenue in column 3 + i, under the period of
\* column 1; a row with any other label adds no record.
C25_MarkerScan ==
    [][RowRead =>
         IF IsTotalRow(row')
         THEN ~PeriodMissing(row'.period_val) =>
                /\ pc' = "revenue_loop"
                /\ Len(data_list') = Len(data_list) + Len(RowRecords(row', <<0>>))
                /\ row'.period_val.k = "num" =>
                      data_list' = data_list
                          \o RowRecords(row', IntToStr(row'.period_val.v))
         ELSE data_list' = data_list]_vars

\* the table load_data returns in the scenario, but for the hours: three
\* records, none for period 1 and South, gross profit 500 and margin 41.7 %
\* for period 2 and North
ScenarioTable ==
    /\ Len(df) = 3
    /\ ~\E i \in 1..Len(df) : df[i].Period = <<1>> /\ df[i].Branch = "South"
    /\ \E i \in 1..Len(df) :
          /\ df[i].Period = <<2>> /\ df[i].Branch = "North"
          /\ df[i].GrossProfit = 500
          /\ df[i].Margin = 417

\* the report's branch ranking on the whole table: North has revenue 2200,
\* 73.3 % of the total 3000
ScenarioRanking ==
    /\ SumSeq(Column(pdf_branch_totals, "Revenue")) = 3000
    /\ \E i \in 1..Len(pdf_branch_totals) :
          /\ pdf_branch_totals[i].Branch = "North"
          /\ pdf_branch_totals[i].Revenue = 2200
          /\ pdf_branch_totals[i].Share = 733

\* what holds of the scenario on the code
ScenarioWithoutHours ==
    /\ pc \in {"loaded", "script", "dashboard", "report"} => ScenarioTable
    /\ (pc = "report" /\ filtered_df = df) => ScenarioRanking

\* C23 (end-to-end scenario): the table has 3 records, none for period 1 and
\* South; the record of period 2 and North has gross profit 500, margin
\* 41.7 % and revenue per hour 20.00 (in hundredths); in the report on the
\* whole table North has revenue 2200 and a share of 73.3 % of 3000.
C23_EndToEndScenario ==
    /\ pc \in {"loaded", "script", "dashboard", "report"} =>
          /\ ScenarioTable
          /\ \E i \in 1..Len(df) :
                /\ df[i].Period = <<2>> /\ df[i].Branch = "North"
                /\ "RevPerHour" \in DOMAIN df[i]
                /\ df[i].RevPerHour = 2000
    /\ (pc = "report" /\ filtered_df = df) => ScenarioRanking

\* C30 (bounded staleness): a result load_data returns at time t, served from
\* the cache or just computed, was read from the files get_latest_files
\* resolved as the latest at a time no earlier than t - 60 seconds.
C30_BoundedStaleness ==
    [][\A s \in Sessions :
          /\ (Ends(s) /\ how'[s] = "hit") =>
                (result' = SourceOf(load_cache.value)
                    /\ load_cache.value.resolved >= now - TTL)
          /\ (Ends(s) /\ how'[s] = "computed") =>
                (result' = SourceOf(src[s])
                    /\ src[s].resolved >= now - TTL)]_vars

\* C28 (authentication gate): in every session auth starts false; load_data
\* (with get_latest_files inside it) and the dashboard steps run only in a
\* script run that started with session_state.auth true; auth becomes true
\* only in a run of the gate in which the text entered equals the configured
\* password; and once true it is never false again in that session.
C28_AuthGate ==
    /\ \A s \in Sessions : ~session_state[s].auth
    /\ [](\A s \in Sessions : apc[s] \in {"load_data", "dashboard"} => run_auth[s])
    /\ [][\A s \in Sessions :
            (~session_state[s].auth /\ session_state'[s].auth) =>
                (apc[s] = "gate" /\ password_input[s] = PASSWORD)]_vars
    /\ [][\A s \in Sessions : session_state[s].auth => session_state'[s].auth]_vars

\* one session is past the gate and on the dashboard while another, with a
\* wrong password entered, is held at the gate
C28_Witness ==
    \E s, t \in Sessions :
        /\ apc[s] = "dashboard" /\ session_state[s].auth
        /\ apc[t] = "idle" /\ GateShown(t)
        /\ password_input[t] \notin {<<>>, PASSWORD}

====
